---- MODULE Spec2Model ----
(***************************************************************************)
(* Model of public/app.js: displayMessage(message).                        *)
(*                                                                         *)
(*   var container = document.getElementById('message-box');               *)
(*   container.innerHTML = message;                                        *)
(*   fetch('/log-message', { method: 'POST', body: message });             *)
(*                                                                         *)
(* A string is a sequence of one-character strings.  The document is a     *)
(* function from element ids to the element's child nodes; the child nodes *)
(* of an element are kept as the pre-order list of its descendants, each   *)
(* with its depth below the element.  The innerHTML setter is modelled by  *)
(* what it does: the HTML fragment parser (tokenizer and tree builder)     *)
(* restricted to the characters of Alphabet.  The browser runs a handler   *)
(* to completion, so a call of displayMessage is one step; the settling of *)
(* a fetch promise is a later step of its own.                             *)
(***************************************************************************)
EXTENDS Naturals, Sequences, FiniteSets

VARIABLES document, requests, unhandledRejections, lastCall, written, calls

vars == <<document, requests, unhandledRejections, lastCall, written, calls>>

\* Number of calls of displayMessage a behaviour makes.
MaxCalls == 2

null == "null"

MessageBoxId == "message-box"

TitleId == "title"

LogUrl == "/log-message"

----------------------------------------------------------------------------
(* Characters and strings                                                  *)

Letters == {"x", "l", "t"}

Alphabet == Letters \cup {"<", ">", "&", "/"}

IsAlpha(c) == c \in Letters

\* The messages the calls are made with: empty, plain text, text with
\* markup-significant characters that the parser leaves alone, a character
\* reference, start tags, an end tag, an attribute, an unterminated tag and
\* a bogus comment.
Messages ==
    { <<>>,
      <<"x">>,
      <<"x", "<", ">", "&">>,
      <<"&", "l", "t">>,
      <<"<", "x", ">">>,
      <<"<", "x", ">", "t", "<", "/", "x", ">", "l">>,
      <<"<", "x", "/", "l", ">">>,
      <<"x", "<", "l">>,
      <<"<", "/", "<", ">">> }

\* What the page's markup may have put into the display region.
InitialContents == { <<>>, <<"x">>, <<"<", "x", ">", "t">> }

----------------------------------------------------------------------------
(* HTML tokenizer, for the characters of Alphabet                          *)

CharToken(c) == [type |-> "char", name |-> <<c>>, attrs |-> <<>>, selfClosing |-> FALSE]

NewTag(type) == [type |-> type, name |-> <<>>, attrs |-> <<>>, selfClosing |-> FALSE]

\* The named character references that can be spelled with Letters and no
\* semicolon: only "lt".
MatchesLt(s, i) == i + 1 <= Len(s) /\ s[i] = "l" /\ s[i + 1] = "t"

AppendName(cur, c) == [cur EXCEPT !.name = Append(@, c)]

StartAttr(cur) == [cur EXCEPT !.attrs = Append(@, <<>>)]

AppendAttrName(cur, c) ==
    [cur EXCEPT !.attrs = [@ EXCEPT ![Len(@)] = Append(@, c)]]

\* Leaving the attribute name state: an attribute whose name the tag
\* already has is dropped.
CloseAttr(cur) ==
    LET n == Len(cur.attrs)
    IN  IF n > 0 /\ \E k \in 1..(n - 1) : cur.attrs[k] = cur.attrs[n]
        THEN [cur EXCEPT !.attrs = SubSeq(@, 1, n - 1)]
        ELSE cur

\* An end tag carries no attributes and no self-closing flag into the tree.
EmitTag(cur) ==
    IF cur.type = "end" THEN [cur EXCEPT !.attrs = <<>>, !.selfClosing = FALSE]
    ELSE cur

RECURSIVE Tokenize(_, _, _, _, _)
Tokenize(s, i, st, cur, out) ==
    LET eof == i > Len(s)
        c   == IF eof THEN "EOF" ELSE s[i]
    IN  CASE st = "Data" ->
               IF eof THEN out
               ELSE IF c = "&" THEN
                   IF MatchesLt(s, i + 1)
                   THEN Tokenize(s, i + 3, "Data", cur, Append(out, CharToken("<")))
                   ELSE Tokenize(s, i + 1, "Data", cur, Append(out, CharToken("&")))
               ELSE IF c = "<" THEN Tokenize(s, i + 1, "TagOpen", cur, out)
               ELSE Tokenize(s, i + 1, "Data", cur, Append(out, CharToken(c)))
          [] st = "TagOpen" ->
               IF eof THEN Append(out, CharToken("<"))
               ELSE IF IsAlpha(c) THEN Tokenize(s, i, "TagName", NewTag("start"), out)
               ELSE IF c = "/" THEN Tokenize(s, i + 1, "EndTagOpen", cur, out)
               ELSE Tokenize(s, i, "Data", cur, Append(out, CharToken("<")))
          [] st = "EndTagOpen" ->
               IF eof THEN Append(Append(out, CharToken("<")), CharToken("/"))
               ELSE IF IsAlpha(c) THEN Tokenize(s, i, "TagName", NewTag("end"), out)
               ELSE IF c = ">" THEN Tokenize(s, i + 1, "Data", cur, out)
               ELSE Tokenize(s, i, "BogusComment", NewTag("comment"), out)
          [] st = "TagName" ->
               IF eof THEN out
               ELSE IF c = "/" THEN Tokenize(s, i + 1, "SelfClosingStartTag", cur, out)
               ELSE IF c = ">" THEN Tokenize(s, i + 1, "Data", cur, Append(out, EmitTag(cur)))
               ELSE Tokenize(s, i + 1, "TagName", AppendName(cur, c), out)
          [] st = "SelfClosingStartTag" ->
               IF eof THEN out
               ELSE IF c = ">"
               THEN Tokenize(s, i + 1, "Data", cur,
                             Append(out, EmitTag([cur EXCEPT !.selfClosing = TRUE])))
               ELSE Tokenize(s, i, "BeforeAttributeName", cur, out)
          [] st = "BeforeAttributeName" ->
               IF eof \/ c = "/" \/ c = ">"
               THEN Tokenize(s, i, "AfterAttributeName", cur, out)
               ELSE Tokenize(s, i, "AttributeName", StartAttr(cur), out)
          [] st = "AttributeName" ->
               IF eof \/ c = "/" \/ c = ">"
               THEN Tokenize(s, i, "AfterAttributeName", CloseAttr(cur), out)
               ELSE Tokenize(s, i + 1, "AttributeName", AppendAttrName(cur, c), out)
          [] st = "AfterAttributeName" ->
               IF eof THEN out
               ELSE IF c = "/" THEN Tokenize(s, i + 1, "SelfClosingStartTag", cur, out)
               ELSE IF c = ">" THEN Tokenize(s, i + 1, "Data", cur, Append(out, EmitTag(cur)))
               ELSE Tokenize(s, i, "AttributeName", StartAttr(cur), out)
          [] st = "BogusComment" ->
               IF eof THEN Append(out, cur)
               ELSE IF c = ">" THEN Tokenize(s, i + 1, "Data", cur, Append(out, cur))
               ELSE Tokenize(s, i + 1, "BogusComment", AppendName(cur, c), out)

----------------------------------------------------------------------------
(* HTML tree construction, "in body", for elements that are not special    *)

Node(kind, name, attrs, depth) ==
    [kind |-> kind, name |-> name, attrs |-> attrs, depth |-> depth]

\* A character goes to the text node that is the last child of the current
\* node, or to a new text node.
InsertCharacter(nodes, open, c) ==
    LET n == Len(nodes)
        d == Len(open) + 1
    IN  IF n > 0 /\ nodes[n].kind = "text" /\ nodes[n].depth = d
        THEN [nodes EXCEPT ![n].name = Append(@, c)]
        ELSE Append(nodes, Node("text", <<c>>, {}, d))

\* The open element nearest the current node with the end tag's name, or 0.
MatchingOpen(open, name) ==
    LET S == {k \in 1..Len(open) : open[k] = name}
    IN  IF S = {} THEN 0 ELSE CHOOSE k \in S : \A j \in S : j <= k

RECURSIVE TreeBuild(_, _, _, _)
TreeBuild(tokens, i, nodes, open) ==
    IF i > Len(tokens) THEN nodes
    ELSE LET t == tokens[i]
         IN  CASE t.type = "char" ->
                    TreeBuild(tokens, i + 1, InsertCharacter(nodes, open, t.name[1]), open)
               [] t.type = "comment" ->
                    TreeBuild(tokens, i + 1,
                              Append(nodes, Node("comment", t.name, {}, Len(open) + 1)), open)
               [] t.type = "start" ->
                    TreeBuild(tokens, i + 1,
                              Append(nodes,
                                     Node("element", t.name,
                                          {t.attrs[k] : k \in 1..Len(t.attrs)},
                                          Len(open) + 1)),
                              Append(open, t.name))
               [] t.type = "end" ->
                    LET k == MatchingOpen(open, t.name)
                    IN  IF k = 0 THEN TreeBuild(tokens, i + 1, nodes, open)
                        ELSE TreeBuild(tokens, i + 1, nodes, SubSeq(open, 1, k - 1))

\* The child nodes the fragment parser makes of a string.
ParseFragment(s) == TreeBuild(Tokenize(s, 1, "Data", NewTag("start"), <<>>), 1, <<>>, <<>>)

----------------------------------------------------------------------------
(* DOM                                                                     *)

RECURSIVE textContent(_)
textContent(nodes) ==
    IF nodes = <<>> THEN <<>>
    ELSE (IF Head(nodes).kind = "text" THEN Head(nodes).name ELSE <<>>)
         \o textContent(Tail(nodes))

Elements(nodes) == {k \in 1..Len(nodes) : nodes[k].kind = "element"}

getElementById(doc, id) == IF id \in DOMAIN doc THEN id ELSE null

\* element.innerHTML = s, with all children appended instead of replaced.
appendInnerHTML(doc, el, s) == [doc EXCEPT ![el] = @ \o ParseFragment(s)]

\* element.innerHTML = s: the element's children are replaced by the
\* fragment parsed from s.
setInnerHTML(doc, el, s) == [doc EXCEPT ![el] = ParseFragment(s)]

\* fetch(url, {method, body}): the request and its promise, which nothing
\* awaits and to which no handler is attached.
fetch(url, method, body) ==
    [url |-> url, method |-> method, body |-> body, promise |-> "pending"]

----------------------------------------------------------------------------
(* displayMessage                                                          *)

\* displayMessage with the request issued first and the region written
\* after it.
displayMessageLogFirst(doc, reqs, message) ==
    LET container == getElementById(doc, MessageBoxId)
        sent      == Append(reqs, fetch(LogUrl, "POST", message))
    IN  IF container = null
        THEN [document |-> doc, requests |-> sent, outcome |-> "TypeError", wrote |-> FALSE]
        ELSE [document |-> setInnerHTML(doc, container, message),
              requests |-> sent, outcome |-> "returned", wrote |-> TRUE]

\* displayMessage that writes the region only once the request has
\* completed: at return the region is not written yet.
displayMessageAwaitsLog(doc, reqs, message) ==
    LET container == getElementById(doc, MessageBoxId)
    IN  IF container = null
        THEN [document |-> doc, requests |-> reqs, outcome |-> "TypeError", wrote |-> FALSE]
        ELSE [document |-> doc,
              requests |-> Append(reqs, fetch(LogUrl, "POST", message)),
              outcome |-> "returned", wrote |-> FALSE]

\* displayMessage that creates the region when the document has none.
displayMessageCreatesRegion(doc, reqs, message) ==
    LET container == getElementById(doc, MessageBoxId)
    IN  IF container = null
        THEN [document |-> [id \in DOMAIN doc \cup {MessageBoxId} |->
                               IF id = MessageBoxId THEN ParseFragment(message) ELSE doc[id]],
              requests |-> reqs, outcome |-> "returned", wrote |-> TRUE]
        ELSE [document |-> setInnerHTML(doc, container, message),
              requests |-> Append(reqs, fetch(LogUrl, "POST", message)),
              outcome |-> "returned", wrote |-> TRUE]

\* The call as a function of the document and the requests issued so far:
\* the document and requests it leaves, how it ends ("returned", or
\* "TypeError" when the property of null is set) and whether the write to
\* the region was made.
displayMessage(doc, reqs, message) ==
    LET container == getElementById(doc, MessageBoxId)
    IN  IF container = null
        THEN [document |-> doc, requests |-> reqs, outcome |-> "TypeError", wrote |-> FALSE]
        ELSE [document |-> setInnerHTML(doc, container, message),
              requests |-> Append(reqs, fetch(LogUrl, "POST", message)),
              outcome |-> "returned", wrote |-> TRUE]

----------------------------------------------------------------------------
(* The program                                                             *)

TitleContent == <<Node("text", <<"t">>, {}, 1)>>

InitialDocuments ==
    { [id \in {TitleId} |-> TitleContent] }
    \cup
    { [id \in {TitleId, MessageBoxId} |->
          IF id = TitleId THEN TitleContent ELSE ParseFragment(s)] : s \in InitialContents }

Init ==
    /\ document \in InitialDocuments
    /\ requests = <<>>
    /\ unhandledRejections = {}
    /\ lastCall = [message |-> <<>>, outcome |-> "none"]
    /\ written = <<>>
    /\ calls = 0

\* An event handler of the page calls displayMessage(message).
DisplayMessage(message) ==
    /\ calls < MaxCalls
    /\ LET r == displayMessage(document, requests, message)
       IN  /\ document' = r.document
           /\ requests' = r.requests
           /\ lastCall' = [message |-> message, outcome |-> r.outcome]
           /\ written' = IF r.wrote THEN Append(written, message) ELSE written
    /\ calls' = calls + 1
    /\ UNCHANGED unhandledRejections

\* The response to request i arrives: its promise is fulfilled.
FetchFulfilled(i) ==
    /\ requests[i].promise = "pending"
    /\ requests' = [requests EXCEPT ![i].promise = "fulfilled"]
    /\ UNCHANGED <<document, unhandledRejections, lastCall, written, calls>>

\* Request i fails (network error): its promise is rejected, and as it has
\* no rejection handler the rejection is reported as unhandled.
FetchRejected(i) ==
    /\ requests[i].promise = "pending"
    /\ requests' = [requests EXCEPT ![i].promise = "rejected"]
    /\ unhandledRejections' = unhandledRejections \cup {i}
    /\ UNCHANGED <<document, lastCall, written, calls>>

Next ==
    \/ \E message \in Messages : DisplayMessage(message)
    \/ \E i \in DOMAIN requests : FetchFulfilled(i)
    \/ \E i \in DOMAIN requests : FetchRejected(i)

Spec == Init /\ [][Next]_vars

----------------------------------------------------------------------------
(* Properties                                                              *)

Region == document[MessageBoxId]

RegionPresent == MessageBoxId \in DOMAIN document

Called == lastCall.outcome # "none"

\* C1: with the region present, after a call with s the region's rendered
\* text is s and nothing of s has become an element (the only way content
\* carried in s could come to run).
RenderedAsPlainText ==
    (RegionPresent /\ lastCall.outcome = "returned") =>
        /\ textContent(Region) = lastCall.message
        /\ Elements(Region) = {}

\* C2: a call on a document without the region returns normally.
AbsentRegionCompletesNormally ==
    (~RegionPresent /\ Called) => lastCall.outcome = "returned"

\* C3: no call issues a network request: no step adds to the requests.
NoNetworkRequest == [][Len(requests') = Len(requests)]_vars

\* C4: a call on a document without the region leaves the document and the
\* requests as they were.
AbsentRegionNoSideEffect ==
    [][(~RegionPresent /\ calls' # calls) =>
          (document' = document /\ requests' = requests)]_vars

AbsentRegionCalled ==
    ~RegionPresent /\ lastCall.outcome = "TypeError" /\ calls = MaxCalls

\* C5: a second call with s right after a call with s leaves the document
\* and the issued requests as the first call left them.
Idempotent ==
    Called =>
        LET twice == displayMessage(document, requests, lastCall.message)
        IN  twice.document = document /\ twice.requests = requests

\* C6: no failure of a request the operation issued is left unhandled.
NoUnhandledRequestFailure == unhandledRejections = {}

\* C7: with the region present, a call with the empty string returns and
\* leaves the region without content, whatever it held.
EmptyMessageEmptiesRegion ==
    (RegionPresent /\ Called /\ lastCall.message = <<>>) =>
        (lastCall.outcome = "returned" /\ Region = <<>>)

EmptyMessageOverContent ==
    /\ RegionPresent
    /\ Len(written) = 2
    /\ written[1] = <<"<", "x", ">">>
    /\ written[2] = <<>>
    /\ Region = <<>>

\* C8: after any calls m1..mn the region's content is what a single call
\* with mn makes of any starting content: nothing of the earlier messages
\* or of the earlier content remains.
ContentIsLastMessageAlone ==
    (RegionPresent /\ written # <<>>) =>
        \A d0 \in InitialDocuments :
            MessageBoxId \in DOMAIN d0 =>
                Region = displayMessage(d0, <<>>, written[Len(written)]).document[MessageBoxId]

TwoMessagesWritten ==
    /\ Len(written) = 2
    /\ ParseFragment(written[1]) # <<>>
    /\ ParseFragment(written[2]) # <<>>
    /\ ParseFragment(written[1]) # ParseFragment(written[2])

LogMatchesWrites ==
    /\ Len(requests) = Len(written)
    /\ \A i \in DOMAIN requests :
          /\ requests[i].url = LogUrl
          /\ requests[i].method = "POST"
          /\ requests[i].body = written[i]

TwoWritesLogged ==
    /\ Len(requests) = 2
    /\ requests[1].body # requests[2].body
    /\ requests[2].body = lastCall.message

====
